---- MODULE Spec2Model ----
(***************************************************************************)
(* sscall: a point-to-point voice link over UDP.  Two programs share one   *)
(* design: src/sscall.c sends and plays raw PCM blocks, src/src/sscall.c   *)
(* compresses with Speex, frames each packet with an 8-byte header and    *)
(* plays through a jitter buffer.  Each program has three threads: main    *)
(* (the receive loop, then the shutdown sequence), the playback thread     *)
(* (output_pcm / playback) and the capture thread (input_pcm / capture).   *)
(* The variable `variant` says which program runs.                         *)
(***************************************************************************)
EXTENDS Integers, Sequences, FiniteSets, TLC

(* ------------------------------ bounds -------------------------------- *)

\* Datagrams the receive loop accepts before recvfrom only reports "no data".
MaxRecv == 2

\* Reads of the capture source that return data.
MaxSend == 2

\* longest payload the encoder writes when the framing is taken on its own.
MaxPayload == 2

(* ------------------------- program constants -------------------------- *)

FRAME_SIZE == 320

COMPRESSED_BUF_SIZE == 1500

\* sizeof(struct compressed_header): two packed uint32_t.
HDR_SIZE == 8

\* size_t arithmetic wraps modulo SIZE_MOD.  The width is scaled to 30 bits
\* so that every value stays inside 32-bit integer arithmetic; a wrapped
\* difference is still far larger than any request malloc can satisfy.
SIZE_MOD == 2 ^ 30

\* Largest request malloc can satisfy (PTRDIFF_MAX for the scaled width).
MALLOC_MAX == (SIZE_MOD \div 2) - 1

(* ---------------------- 32-bit words and bytes ------------------------ *)

\* A uint32_t value is written as its four bytes, most significant first.
\* 0xcafebabe
SIG == <<202, 254, 186, 190>>

\* The uint32_t that holds the non-negative int n (hdr->timestamp = timestamp).
ToU32(n) ==
    << (n \div 16777216) % 256, (n \div 65536) % 256, (n \div 256) % 256, n % 256 >>

\* The int a uint32_t converts to (recv_timestamp = hdr->timestamp).
ToInt(w) == ((w[1] * 256 + w[2]) * 256 + w[3]) * 256 + w[4]

bswap(w) == << w[4], w[3], w[2], w[1] >>

VARIABLES
    variant,              \* "raw" (src/sscall.c) or "codec" (src/src/sscall.c)
    host_be,              \* the host stores words most significant byte first
    handle_sigint,        \* set by the SIGINT handler
    pc_main,              \* main thread's position
    pc_out,               \* playback thread's position
    pc_in,                \* capture thread's position
    queue_lock,           \* pcm_buf_lock / compressed_buf_lock: owner or "free"
    playback_state_lock,  \* output_pcm_state_lock / playback_state_lock
    capture_state_lock,   \* input_pcm_state_lock / capture_state_lock
    speex_jitter_lock,    \* speex_jitter_lock (codec)
    queue,                \* pcm_buf.list / compressed_buf.list, head first
    playback_quit,        \* output_pcm_state.quit / playback_state.quit
    capture_quit,         \* input_pcm_state.quit / capture_state.quit
    speex_jitter,         \* the jitter buffer (codec)
    device,               \* the libao device: "open" or "closed"
    m_buf,                \* main: the datagram recvfrom stored in buf
    cbuf_len,             \* main: cbuf->len (codec)
    pcm,                  \* playback: the block speex_jitter_get decoded (codec)
    timestamp,            \* capture: the timestamp counter (codec)
    outbuf,               \* capture: the datagram about to be sent
    received,             \* history: datagrams recvfrom returned, in order
    hist_put,             \* history: datagrams whose payload went to speex_jitter_put
    hist_push,            \* history: datagrams whose block was added to the queue
    played,               \* history: blocks ao_play wrote, in order
    freed,                \* history: queue entries the playback thread freed, in order
    sent,                 \* history: datagrams handed to sendto, with the outcome
    events,               \* history: steps of the shutdown sequence, in order
    fr_pc,                \* framing on its own: position
    fr_payload,           \* framing on its own: the encoder's output
    fr_T,                 \* framing on its own: the timestamp counter
    fr_dgram,             \* framing on its own: the datagram built
    fr_out                \* framing on its own: what the receive side extracted

vars ==
    << variant, host_be, handle_sigint, pc_main, pc_out, pc_in, queue_lock,
       playback_state_lock, capture_state_lock, speex_jitter_lock, queue,
       playback_quit, capture_quit, speex_jitter, device, m_buf, cbuf_len, pcm,
       timestamp, outbuf, received, hist_put, hist_push, played, freed, sent,
       events, fr_pc, fr_payload, fr_T, fr_dgram, fr_out >>

\* Groups of variables an action leaves alone.
platformVars == << variant, host_be >>
framerVars == << fr_pc, fr_payload, fr_T, fr_dgram, fr_out >>
captureVars == << pc_in, timestamp, outbuf, sent >>
mainVars == << pc_main, m_buf, cbuf_len, received, hist_put, hist_push, events, device >>
lockVars == << queue_lock, playback_state_lock, capture_state_lock, speex_jitter_lock >>

\* htonl(): identity on a big-endian host, a byte swap on a little-endian one.
htonl(w) == IF host_be THEN w ELSE bswap(w)

\* The four bytes a uint32_t occupies in memory, lowest address first.
StoreU32(w) == IF host_be THEN w ELSE << w[4], w[3], w[2], w[1] >>

\* The uint32_t read from four bytes of memory.
LoadU32(m) == IF host_be THEN m ELSE << m[4], m[3], m[2], m[1] >>

(* ------------------------- packet framing ----------------------------- *)

\* Mutant of capture_frame: htonl is left out, the signature is stored in host
\* byte order.
capture_frame_host_sig(payload, ts) ==
    StoreU32(SIG) \o StoreU32(ToU32(ts)) \o payload

\* capture(): the datagram built in outbuf from the encoder's output and the
\* timestamp counter: hdr->sig = htonl(0xcafebabe); hdr->timestamp = timestamp;
\* length outbytes + sizeof(*hdr).
capture_frame(payload, ts) ==
    StoreU32(htonl(SIG)) \o StoreU32(ToU32(ts)) \o payload

\* process_compressed_packet(): cbuf->len = len - sizeof(*hdr), in size_t.
packet_cbuf_len(len) == (len - HDR_SIZE) % SIZE_MOD

\* malloc(n) returns NULL for a request larger than the address space allows.
malloc_fails(n) == n > MALLOC_MAX

\* process_compressed_packet(): memcpy(cbuf->buf, buf + sizeof(*hdr), cbuf->len).
packet_payload(buf) ==
    SubSeq(buf, HDR_SIZE + 1, HDR_SIZE + packet_cbuf_len(Len(buf)))

\* process_compressed_packet(): recv_timestamp = hdr->timestamp.
packet_timestamp(buf) == ToInt(LoadU32(SubSeq(buf, 5, 8)))

(* ---------------------- jitter buffer (Speex) ------------------------- *)

\* speex_jitter_init(): no frames, playback cursor at 0.
speex_jitter_init == [frames |-> {}, cursor |-> 0]

\* speex_jitter_put(): store the frame under its timestamp; a frame for a
\* timestamp already stored or already consumed is dropped.
speex_jitter_put(j, payload, ts) ==
    IF ts < j.cursor \/ (\E f \in j.frames : f[1] = ts)
    THEN j
    ELSE [j EXCEPT !.frames = @ \cup {<<ts, payload>>}]

\* speex_jitter_get(): the block for the playback cursor, decoded from the
\* stored frame or concealed when there is none.
speex_jitter_block(j) ==
    IF \E f \in j.frames : f[1] = j.cursor
    THEN [ts |-> j.cursor, concealed |-> FALSE,
          data |-> (CHOOSE f \in j.frames : f[1] = j.cursor)[2]]
    ELSE [ts |-> j.cursor, concealed |-> TRUE, data |-> <<>>]

\* speex_jitter_get(): the cursor advances by one frame whatever was found.
speex_jitter_get(j) ==
    [frames |-> {f \in j.frames : f[1] # j.cursor},
     cursor |-> j.cursor + FRAME_SIZE]

(* ---------------------------- inputs ---------------------------------- *)

\* Raw mode: datagrams the peer may send (any positive length).
RawDatagrams == { <<1>>, <<2, 3>> }

\* Raw mode: the block read() returns from the capture source.
RawReads == { <<5, 6>> }

\* Codec mode: the frame speex_bits_write produces.
EncodedFrames == { <<17, 34>> }

\* Codec mode: datagrams that may arrive: two well-formed frames, one with a
\* wrong signature, one shorter than the header.
BadSignature == << 0, 0, 0, 0 >> \o StoreU32(ToU32(0)) \o << 68 >>
Truncated == << 202, 254, 186 >>
CodecDatagrams ==
    { capture_frame(<<17>>, 0), capture_frame(<<34>>, FRAME_SIZE),
      BadSignature, Truncated }

(* ----------------------------- pthreads ------------------------------- *)

\* pthread_cond_signal(&tx_pcm_cond): a thread blocked in the wait is made
\* runnable (it must still reacquire the mutex); otherwise nothing happens.
cond_signal(p) == IF p = "wait" THEN "woken" ELSE p

\* exit() ends every thread of the process.
Running == pc_main \notin {"fatal", "done"}

(* ------------------------------ Init ---------------------------------- *)

\* The state when main reaches its receive loop: the list is empty, the locks
\* are free, both threads have been created and no quit flag is set.
ProgramInit ==
    /\ handle_sigint = FALSE
    /\ pc_main = "loop"
    /\ pc_out = "lock"
    /\ pc_in = "lock"
    /\ queue_lock = "free"
    /\ playback_state_lock = "free"
    /\ capture_state_lock = "free"
    /\ speex_jitter_lock = "free"
    /\ queue = <<>>
    /\ playback_quit = FALSE
    /\ capture_quit = FALSE
    /\ speex_jitter = speex_jitter_init
    /\ device = "open"
    /\ m_buf = <<>>
    /\ cbuf_len = 0
    /\ pcm = <<>>
    /\ timestamp = 0
    /\ outbuf = <<>>
    /\ received = <<>>
    /\ hist_put = <<>>
    /\ hist_push = <<>>
    /\ played = <<>>
    /\ freed = <<>>
    /\ sent = <<>>
    /\ events = <<>>

Init ==
    /\ variant \in {"raw", "codec"}
    /\ host_be = FALSE
    /\ ProgramInit
    /\ fr_pc = "idle"
    /\ fr_payload = <<>>
    /\ fr_T = 0
    /\ fr_dgram = <<>>
    /\ fr_out = <<>>

(* ------------------------- the SIGINT handler ------------------------- *)

sig_handler ==
    /\ Running
    /\ pc_main \notin {"create_playback", "create_capture"}
    /\ ~handle_sigint
    /\ handle_sigint' = TRUE
    /\ UNCHANGED << platformVars, framerVars, captureVars, mainVars, lockVars,
                    pc_out, queue, playback_quit, capture_quit, speex_jitter,
                    pcm, played, freed >>

(* --------------------- main: the receive loop ------------------------- *)

\* Mutant of main_loop: the test of handle_sigint at the top of the loop is
\* made only when no datagram can be received any more.
main_loop_checks_late ==
    /\ pc_main = "loop"
    /\ pc_main' = IF handle_sigint /\ Len(received) >= MaxRecv
                  THEN "capture_quit_lock" ELSE "recvfrom"
    /\ UNCHANGED << platformVars, framerVars, captureVars, lockVars, handle_sigint,
                    pc_out, queue, playback_quit, capture_quit, speex_jitter,
                    pcm, played, freed, m_buf, cbuf_len, received, hist_put, hist_push,
                    events, device >>

\* if (handle_sigint) break;
main_loop ==
    /\ pc_main = "loop"
    /\ pc_main' = IF handle_sigint THEN "capture_quit_lock" ELSE "recvfrom"
    /\ UNCHANGED << platformVars, framerVars, captureVars, lockVars, handle_sigint,
                    pc_out, queue, playback_quit, capture_quit, speex_jitter,
                    pcm, played, freed, m_buf, cbuf_len, received, hist_put, hist_push,
                    events, device >>

\* bytes = recvfrom(..., MSG_DONTWAIT, ...): no datagram (bytes <= 0), or one
\* datagram, handed to do_output_pcm (raw) or process_compressed_packet (codec).
main_recvfrom ==
    /\ pc_main = "recvfrom"
    /\ \/ /\ pc_main' = "loop"
          /\ UNCHANGED << m_buf, received >>
       \/ /\ Len(received) < MaxRecv
          /\ \E d \in (IF variant = "raw" THEN RawDatagrams ELSE CodecDatagrams) :
                /\ m_buf' = d
                /\ received' = Append(received, d)
          /\ pc_main' = IF variant = "raw" THEN "do_output_pcm"
                        ELSE "process_compressed_packet"
    /\ UNCHANGED << platformVars, framerVars, captureVars, lockVars, handle_sigint,
                    pc_out, queue, playback_quit, capture_quit, speex_jitter,
                    pcm, played, freed, cbuf_len, hist_put, hist_push, events, device >>

(* ------------------- raw: do_output_pcm (main) ------------------------ *)

\* pctx = malloc; pctx->buf = malloc(len); memcpy; pthread_mutex_lock(&pcm_buf_lock)
do_output_pcm_lock ==
    /\ variant = "raw"
    /\ pc_main = "do_output_pcm"
    /\ queue_lock = "free"
    /\ queue_lock' = "main"
    /\ pc_main' = "list_add_tail"
    /\ UNCHANGED << platformVars, framerVars, captureVars, handle_sigint,
                    playback_state_lock, capture_state_lock, speex_jitter_lock,
                    pc_out, queue, playback_quit, capture_quit, speex_jitter,
                    pcm, played, freed, m_buf, cbuf_len, received, hist_put, hist_push,
                    events, device >>

\* Mutant of do_output_pcm_add: list_add in place of list_add_tail, so the new
\* block goes to the head of the list.
do_output_pcm_add_head ==
    /\ variant = "raw"
    /\ pc_main = "list_add_tail"
    /\ queue' = << m_buf >> \o queue
    /\ hist_push' = Append(hist_push, m_buf)
    /\ pc_out' = cond_signal(pc_out)
    /\ queue_lock' = "free"
    /\ pc_main' = "loop"
    /\ UNCHANGED << platformVars, framerVars, captureVars, handle_sigint,
                    playback_state_lock, capture_state_lock, speex_jitter_lock,
                    playback_quit, capture_quit, speex_jitter, pcm, played, freed,
                    m_buf, cbuf_len, received, hist_put, events, device >>

\* list_add_tail; pthread_cond_signal(&tx_pcm_cond); pthread_mutex_unlock
do_output_pcm_add ==
    /\ variant = "raw"
    /\ pc_main = "list_add_tail"
    /\ queue' = Append(queue, m_buf)
    /\ hist_push' = Append(hist_push, m_buf)
    /\ pc_out' = cond_signal(pc_out)
    /\ queue_lock' = "free"
    /\ pc_main' = "loop"
    /\ UNCHANGED << platformVars, framerVars, captureVars, handle_sigint,
                    playback_state_lock, capture_state_lock, speex_jitter_lock,
                    playback_quit, capture_quit, speex_jitter, pcm, played, freed,
                    m_buf, cbuf_len, received, hist_put, events, device >>

(* ------------- codec: process_compressed_packet (main) ---------------- *)

\* cbuf->len = len - sizeof(*hdr); cbuf->buf = malloc(cbuf->len);
\* if (!cbuf->buf) err(1, "malloc"); memcpy; recv_timestamp = hdr->timestamp
process_compressed_packet_alloc ==
    /\ variant = "codec"
    /\ pc_main = "process_compressed_packet"
    /\ cbuf_len' = packet_cbuf_len(Len(m_buf))
    /\ pc_main' = IF malloc_fails(cbuf_len') THEN "fatal" ELSE "jitter_lock"
    /\ UNCHANGED << platformVars, framerVars, captureVars, lockVars, handle_sigint,
                    pc_out, queue, playback_quit, capture_quit, speex_jitter,
                    pcm, played, freed, m_buf, received, hist_put, hist_push, events,
                    device >>

\* Mutant of process_compressed_packet_lock: the lock call is missing and
\* main goes straight to speex_jitter_put.
process_compressed_packet_lock_missing ==
    /\ variant = "codec"
    /\ pc_main = "jitter_lock"
    /\ pc_main' = "speex_jitter_put"
    /\ UNCHANGED << platformVars, framerVars, captureVars, handle_sigint,
                    lockVars, pc_out, queue, playback_quit, capture_quit,
                    speex_jitter, pcm, played, freed, m_buf, cbuf_len, received,
                    hist_put, hist_push, events, device >>

\* pthread_mutex_lock(&speex_jitter_lock)
process_compressed_packet_lock ==
    /\ variant = "codec"
    /\ pc_main = "jitter_lock"
    /\ speex_jitter_lock = "free"
    /\ speex_jitter_lock' = "main"
    /\ pc_main' = "speex_jitter_put"
    /\ UNCHANGED << platformVars, framerVars, captureVars, handle_sigint,
                    queue_lock, playback_state_lock, capture_state_lock,
                    pc_out, queue, playback_quit, capture_quit, speex_jitter,
                    pcm, played, freed, m_buf, cbuf_len, received, hist_put, hist_push,
                    events, device >>

\* speex_jitter_put(&speex_jitter, cbuf->buf, cbuf->len, recv_timestamp);
\* pthread_mutex_unlock(&speex_jitter_lock)
process_compressed_packet_put ==
    /\ variant = "codec"
    /\ pc_main = "speex_jitter_put"
    /\ speex_jitter' = speex_jitter_put(speex_jitter, packet_payload(m_buf),
                                        packet_timestamp(m_buf))
    /\ hist_put' = Append(hist_put, m_buf)
    /\ speex_jitter_lock' = "free"
    /\ pc_main' = "enqueue_for_playback"
    /\ UNCHANGED << platformVars, framerVars, captureVars, handle_sigint,
                    queue_lock, playback_state_lock, capture_state_lock,
                    pc_out, queue, playback_quit, capture_quit,
                    pcm, played, freed, m_buf, cbuf_len, received, hist_push,
                    events, device >>

\* enqueue_for_playback(): pthread_mutex_lock(&compressed_buf_lock)
enqueue_for_playback_lock ==
    /\ variant = "codec"
    /\ pc_main = "enqueue_for_playback"
    /\ queue_lock = "free"
    /\ queue_lock' = "main"
    /\ pc_main' = "list_add_tail"
    /\ UNCHANGED << platformVars, framerVars, captureVars, handle_sigint,
                    playback_state_lock, capture_state_lock, speex_jitter_lock,
                    pc_out, queue, playback_quit, capture_quit, speex_jitter,
                    pcm, played, freed, m_buf, cbuf_len, received, hist_put, hist_push,
                    events, device >>

\* list_add_tail; pthread_cond_signal(&tx_pcm_cond); pthread_mutex_unlock
enqueue_for_playback_add ==
    /\ variant = "codec"
    /\ pc_main = "list_add_tail"
    /\ queue' = Append(queue, packet_payload(m_buf))
    /\ hist_push' = Append(hist_push, m_buf)
    /\ pc_out' = cond_signal(pc_out)
    /\ queue_lock' = "free"
    /\ pc_main' = "loop"
    /\ UNCHANGED << platformVars, framerVars, captureVars, handle_sigint,
                    playback_state_lock, capture_state_lock, speex_jitter_lock,
                    playback_quit, capture_quit, speex_jitter, pcm, played, freed,
                    m_buf, cbuf_len, received, hist_put, events, device >>

(* ----------------- raw: the output_pcm thread -------------------------- *)

\* What no step of the playback thread changes.
playbackFrame ==
    << platformVars, framerVars, captureVars, mainVars, handle_sigint,
       playback_quit, capture_quit >>

\* pthread_mutex_lock(&pcm_buf_lock)
output_pcm_lock ==
    /\ variant = "raw"
    /\ Running
    /\ pc_out = "lock"
    /\ queue_lock = "free"
    /\ queue_lock' = "playback"
    /\ pc_out' = "list_empty"
    /\ UNCHANGED << playbackFrame, playback_state_lock, capture_state_lock,
                    speex_jitter_lock, queue, speex_jitter, pcm, played, freed >>

\* if (list_empty(...)) pthread_cond_timedwait(&tx_pcm_cond, &pcm_buf_lock, &ts):
\* entering the wait releases the mutex in the same step.
output_pcm_list_empty ==
    /\ variant = "raw"
    /\ Running
    /\ pc_out = "list_empty"
    /\ IF queue = <<>>
       THEN queue_lock' = "free" /\ pc_out' = "wait"
       ELSE queue_lock' = queue_lock /\ pc_out' = "state_lock"
    /\ UNCHANGED << playbackFrame, playback_state_lock, capture_state_lock,
                    speex_jitter_lock, queue, speex_jitter, pcm, played, freed >>

\* pthread_cond_timedwait: the 3 second wait expires (rc == ETIMEDOUT).
output_pcm_timedout ==
    /\ variant = "raw"
    /\ Running
    /\ pc_out = "wait"
    /\ pc_out' = "timedout"
    /\ UNCHANGED << playbackFrame, lockVars, queue, speex_jitter, pcm, played, freed >>

\* pthread_cond_timedwait: a spurious wakeup, which POSIX allows (rc == 0).
output_pcm_spurious ==
    /\ variant = "raw"
    /\ Running
    /\ pc_out = "wait"
    /\ pc_out' = "woken"
    /\ UNCHANGED << playbackFrame, lockVars, queue, speex_jitter, pcm, played, freed >>

\* Mutant of output_pcm_wake: an expired wait is treated as an error and the
\* thread gives up.
output_pcm_wake_timeout_fatal ==
    /\ variant = "raw"
    /\ Running
    /\ pc_out \in {"woken", "timedout"}
    /\ queue_lock = "free"
    /\ IF pc_out = "timedout"
       THEN queue_lock' = queue_lock /\ pc_out' = "exit"
       ELSE queue_lock' = "playback" /\ pc_out' = "state_lock"
    /\ UNCHANGED << playbackFrame, playback_state_lock, capture_state_lock,
                    speex_jitter_lock, queue, speex_jitter, pcm, played, freed >>

\* pthread_cond_timedwait returns: the mutex is reacquired first.
output_pcm_wake ==
    /\ variant = "raw"
    /\ Running
    /\ pc_out \in {"woken", "timedout"}
    /\ queue_lock = "free"
    /\ queue_lock' = "playback"
    /\ pc_out' = "state_lock"
    /\ UNCHANGED << playbackFrame, playback_state_lock, capture_state_lock,
                    speex_jitter_lock, queue, speex_jitter, pcm, played, freed >>

\* pthread_mutex_lock(&output_pcm_state_lock)
output_pcm_lock_state ==
    /\ variant = "raw"
    /\ Running
    /\ pc_out = "state_lock"
    /\ playback_state_lock = "free"
    /\ playback_state_lock' = "playback"
    /\ pc_out' = "quit_check"
    /\ UNCHANGED << playbackFrame, queue_lock, capture_state_lock,
                    speex_jitter_lock, queue, speex_jitter, pcm, played, freed >>

\* Mutant of output_pcm_quit_check: the unlock of output_pcm_state_lock after
\* the quit test is missing, so the lock stays held through the drain.
output_pcm_quit_check_keeps_lock ==
    /\ variant = "raw"
    /\ Running
    /\ pc_out = "quit_check"
    /\ IF playback_quit
       THEN /\ playback_state_lock' = "free"
            /\ queue_lock' = "free"
            /\ pc_out' = "exit"
       ELSE /\ playback_state_lock' = playback_state_lock
            /\ queue_lock' = queue_lock
            /\ pc_out' = "drain"
    /\ UNCHANGED << playbackFrame, capture_state_lock, speex_jitter_lock,
                    queue, speex_jitter, pcm, played, freed >>

\* Mutant of output_pcm_quit_check: with the flag set the thread still drains
\* what is queued and leaves only once the list is empty.
output_pcm_quit_check_drains_first ==
    /\ variant = "raw"
    /\ Running
    /\ pc_out = "quit_check"
    /\ playback_state_lock' = "free"
    /\ IF playback_quit /\ queue = <<>>
       THEN queue_lock' = "free" /\ pc_out' = "exit"
       ELSE queue_lock' = queue_lock /\ pc_out' = "drain"
    /\ UNCHANGED << playbackFrame, capture_state_lock, speex_jitter_lock,
                    queue, speex_jitter, pcm, played, freed >>

\* if (state->quit) { unlock both; break; } pthread_mutex_unlock(&output_pcm_state_lock)
output_pcm_quit_check ==
    /\ variant = "raw"
    /\ Running
    /\ pc_out = "quit_check"
    /\ playback_state_lock' = "free"
    /\ IF playback_quit
       THEN queue_lock' = "free" /\ pc_out' = "exit"
       ELSE queue_lock' = queue_lock /\ pc_out' = "drain"
    /\ UNCHANGED << playbackFrame, capture_state_lock, speex_jitter_lock,
                    queue, speex_jitter, pcm, played, freed >>

\* list_for_each_safe(iter, q, ...): the next entry, or the end of the list
\* and pthread_mutex_unlock(&pcm_buf_lock)
output_pcm_drain ==
    /\ variant = "raw"
    /\ Running
    /\ pc_out = "drain"
    /\ IF queue = <<>>
       THEN queue_lock' = "free" /\ pc_out' = "lock"
       ELSE queue_lock' = queue_lock /\ pc_out' = "ao_play"
    /\ UNCHANGED << playbackFrame, playback_state_lock, capture_state_lock,
                    speex_jitter_lock, queue, speex_jitter, pcm, played, freed >>

\* ao_play(device, pctx->buf, pctx->len): the blocking device write returns.
output_pcm_ao_play ==
    /\ variant = "raw"
    /\ Running
    /\ pc_out = "ao_play"
    /\ played' = Append(played, Head(queue))
    /\ pc_out' = "free"
    /\ UNCHANGED << playbackFrame, lockVars, queue, speex_jitter, pcm, freed >>

\* Mutant of output_pcm_free: list_del is missing, so the freed entry stays
\* linked and the drain meets it again.
output_pcm_free_no_del ==
    /\ variant = "raw"
    /\ Running
    /\ pc_out = "free"
    /\ freed' = Append(freed, Head(queue))
    /\ pc_out' = "drain"
    /\ UNCHANGED << playbackFrame, lockVars, queue, speex_jitter, pcm, played >>

\* Mutant of output_pcm_free: one entry per iteration; after the free the
\* thread releases the queue lock and starts over.
output_pcm_free_one_per_pass ==
    /\ variant = "raw"
    /\ Running
    /\ pc_out = "free"
    /\ freed' = Append(freed, Head(queue))
    /\ queue' = Tail(queue)
    /\ queue_lock' = "free"
    /\ pc_out' = "lock"
    /\ UNCHANGED << playbackFrame, playback_state_lock, capture_state_lock,
                    speex_jitter_lock, speex_jitter, pcm, played >>

\* free(pctx->buf); list_del(&pctx->list); free(pctx)
output_pcm_free ==
    /\ variant = "raw"
    /\ Running
    /\ pc_out = "free"
    /\ freed' = Append(freed, Head(queue))
    /\ queue' = Tail(queue)
    /\ pc_out' = "drain"
    /\ UNCHANGED << playbackFrame, lockVars, speex_jitter, pcm, played >>

(* ----------------- codec: the playback thread ------------------------- *)

\* pthread_mutex_lock(&compressed_buf_lock)
playback_lock ==
    /\ variant = "codec"
    /\ Running
    /\ pc_out = "lock"
    /\ queue_lock = "free"
    /\ queue_lock' = "playback"
    /\ pc_out' = "list_empty"
    /\ UNCHANGED << playbackFrame, playback_state_lock, capture_state_lock,
                    speex_jitter_lock, queue, speex_jitter, pcm, played, freed >>

\* if (list_empty(...)) pthread_cond_timedwait(&tx_pcm_cond, &compressed_buf_lock, &ts):
\* entering the wait releases the mutex in the same step.
playback_list_empty ==
    /\ variant = "codec"
    /\ Running
    /\ pc_out = "list_empty"
    /\ IF queue = <<>>
       THEN queue_lock' = "free" /\ pc_out' = "wait"
       ELSE queue_lock' = queue_lock /\ pc_out' = "state_lock"
    /\ UNCHANGED << playbackFrame, playback_state_lock, capture_state_lock,
                    speex_jitter_lock, queue, speex_jitter, pcm, played, freed >>

\* pthread_cond_timedwait: the 3 second wait expires (rc == ETIMEDOUT).
playback_timedout ==
    /\ variant = "codec"
    /\ Running
    /\ pc_out = "wait"
    /\ pc_out' = "timedout"
    /\ UNCHANGED << playbackFrame, lockVars, queue, speex_jitter, pcm, played, freed >>

\* pthread_cond_timedwait: a spurious wakeup, which POSIX allows (rc == 0).
playback_spurious ==
    /\ variant = "codec"
    /\ Running
    /\ pc_out = "wait"
    /\ pc_out' = "woken"
    /\ UNCHANGED << playbackFrame, lockVars, queue, speex_jitter, pcm, played, freed >>

\* pthread_cond_timedwait returns: the mutex is reacquired first.
playback_wake ==
    /\ variant = "codec"
    /\ Running
    /\ pc_out \in {"woken", "timedout"}
    /\ queue_lock = "free"
    /\ queue_lock' = "playback"
    /\ pc_out' = "state_lock"
    /\ UNCHANGED << playbackFrame, playback_state_lock, capture_state_lock,
                    speex_jitter_lock, queue, speex_jitter, pcm, played, freed >>

\* pthread_mutex_lock(&playback_state_lock)
playback_lock_state ==
    /\ variant = "codec"
    /\ Running
    /\ pc_out = "state_lock"
    /\ playback_state_lock = "free"
    /\ playback_state_lock' = "playback"
    /\ pc_out' = "quit_check"
    /\ UNCHANGED << playbackFrame, queue_lock, capture_state_lock,
                    speex_jitter_lock, queue, speex_jitter, pcm, played, freed >>

\* if (state->quit) { unlock both; break; } pthread_mutex_unlock(&playback_state_lock)
playback_quit_check ==
    /\ variant = "codec"
    /\ Running
    /\ pc_out = "quit_check"
    /\ playback_state_lock' = "free"
    /\ IF playback_quit
       THEN queue_lock' = "free" /\ pc_out' = "exit"
       ELSE queue_lock' = queue_lock /\ pc_out' = "drain"
    /\ UNCHANGED << playbackFrame, capture_state_lock, speex_jitter_lock,
                    queue, speex_jitter, pcm, played, freed >>

\* Mutant of playback_drain: the thread fetches a block from the jitter
\* buffer on every pass, whether or not an entry is queued.
playback_drain_always_gets ==
    /\ variant = "codec"
    /\ Running
    /\ pc_out = "drain"
    /\ queue_lock' = queue_lock
    /\ pc_out' = "jitter_lock"
    /\ UNCHANGED << playbackFrame, playback_state_lock, capture_state_lock,
                    speex_jitter_lock, queue, speex_jitter, pcm, played, freed >>

\* list_for_each_safe(iter, q, ...): the next entry, or the end of the list
\* and pthread_mutex_unlock(&compressed_buf_lock)
playback_drain ==
    /\ variant = "codec"
    /\ Running
    /\ pc_out = "drain"
    /\ IF queue = <<>>
       THEN queue_lock' = "free" /\ pc_out' = "lock"
       ELSE queue_lock' = queue_lock /\ pc_out' = "jitter_lock"
    /\ UNCHANGED << playbackFrame, playback_state_lock, capture_state_lock,
                    speex_jitter_lock, queue, speex_jitter, pcm, played, freed >>

\* pthread_mutex_lock(&speex_jitter_lock)
playback_jitter_lock ==
    /\ variant = "codec"
    /\ Running
    /\ pc_out = "jitter_lock"
    /\ speex_jitter_lock = "free"
    /\ speex_jitter_lock' = "playback"
    /\ pc_out' = "speex_jitter_get"
    /\ UNCHANGED << playbackFrame, queue_lock, playback_state_lock,
                    capture_state_lock, queue, speex_jitter, pcm, played, freed >>

\* Mutant of playback_jitter_get: the jitter buffer is asked twice per entry
\* and the first block is thrown away.
playback_jitter_get_twice ==
    /\ variant = "codec"
    /\ Running
    /\ pc_out = "speex_jitter_get"
    /\ pcm' = speex_jitter_block(speex_jitter_get(speex_jitter))
    /\ speex_jitter' = speex_jitter_get(speex_jitter_get(speex_jitter))
    /\ speex_jitter_lock' = "free"
    /\ pc_out' = "ao_play"
    /\ UNCHANGED << playbackFrame, queue_lock, playback_state_lock,
                    capture_state_lock, queue, played, freed >>

\* speex_jitter_get(&speex_jitter, pcm, 0); pthread_mutex_unlock(&speex_jitter_lock)
playback_jitter_get ==
    /\ variant = "codec"
    /\ Running
    /\ pc_out = "speex_jitter_get"
    /\ pcm' = speex_jitter_block(speex_jitter)
    /\ speex_jitter' = speex_jitter_get(speex_jitter)
    /\ speex_jitter_lock' = "free"
    /\ pc_out' = "ao_play"
    /\ UNCHANGED << playbackFrame, queue_lock, playback_state_lock,
                    capture_state_lock, queue, played, freed >>

\* ao_play(device, (void *)pcm, sizeof(pcm)): the blocking device write returns.
playback_ao_play ==
    /\ variant = "codec"
    /\ Running
    /\ pc_out = "ao_play"
    /\ played' = Append(played, pcm)
    /\ pc_out' = "free"
    /\ UNCHANGED << playbackFrame, lockVars, queue, speex_jitter, pcm, freed >>

\* free(cbuf->buf); list_del(&cbuf->list); free(cbuf)
playback_free ==
    /\ variant = "codec"
    /\ Running
    /\ pc_out = "free"
    /\ freed' = Append(freed, Head(queue))
    /\ queue' = Tail(queue)
    /\ pc_out' = "drain"
    /\ UNCHANGED << playbackFrame, lockVars, speex_jitter, pcm, played >>

(* ------------------- raw: the input_pcm thread ------------------------ *)

\* What no step of the capture thread changes.
captureFrame ==
    << platformVars, framerVars, mainVars, handle_sigint, pc_out, queue,
       playback_quit, capture_quit, speex_jitter, pcm, played, freed, queue_lock,
       playback_state_lock, speex_jitter_lock >>

\* pthread_mutex_lock(&input_pcm_state_lock)
input_pcm_lock ==
    /\ variant = "raw"
    /\ Running
    /\ pc_in = "lock"
    /\ capture_state_lock = "free"
    /\ capture_state_lock' = "capture"
    /\ pc_in' = "quit_check"
    /\ UNCHANGED << captureFrame, timestamp, outbuf, sent >>

\* Mutant of input_pcm_quit_check: the test of the flag is missing and the
\* thread always goes on to read.
input_pcm_quit_check_ignored ==
    /\ variant = "raw"
    /\ Running
    /\ pc_in = "quit_check"
    /\ capture_state_lock' = "free"
    /\ pc_in' = "read"
    /\ UNCHANGED << captureFrame, timestamp, outbuf, sent >>

\* if (state->quit) { unlock; break; } pthread_mutex_unlock(&input_pcm_state_lock)
input_pcm_quit_check ==
    /\ variant = "raw"
    /\ Running
    /\ pc_in = "quit_check"
    /\ capture_state_lock' = "free"
    /\ pc_in' = IF capture_quit THEN "exit" ELSE "read"
    /\ UNCHANGED << captureFrame, timestamp, outbuf, sent >>

\* bytes = read(inp_pcm_priv.fd, buf, sizeof(buf)): nothing to read, or a block
input_pcm_read ==
    /\ variant = "raw"
    /\ Running
    /\ pc_in = "read"
    /\ \/ pc_in' = "lock" /\ outbuf' = outbuf
       \/ /\ Len(sent) < MaxSend
          /\ \E b \in RawReads : outbuf' = b
          /\ pc_in' = "sendto"
    /\ UNCHANGED << captureFrame, capture_state_lock, timestamp, sent >>

\* Mutant of input_pcm_sendto: a failed send ends the thread (err for warn).
input_pcm_sendto_fatal ==
    /\ variant = "raw"
    /\ Running
    /\ pc_in = "sendto"
    /\ \E ok \in BOOLEAN :
          /\ sent' = Append(sent, [dgram |-> outbuf, ok |-> ok])
          /\ pc_in' = IF ok THEN "lock" ELSE "exit"
    /\ UNCHANGED << captureFrame, capture_state_lock, timestamp, outbuf >>

\* bytes = sendto(...); if (bytes < 0) warn("sendto"); usleep(UDELAY_SEND)
input_pcm_sendto ==
    /\ variant = "raw"
    /\ Running
    /\ pc_in = "sendto"
    /\ \E ok \in BOOLEAN : sent' = Append(sent, [dgram |-> outbuf, ok |-> ok])
    /\ pc_in' = "lock"
    /\ UNCHANGED << captureFrame, capture_state_lock, timestamp, outbuf >>

(* -------------------- codec: the capture thread ----------------------- *)

\* pthread_mutex_lock(&capture_state_lock)
capture_lock ==
    /\ variant = "codec"
    /\ Running
    /\ pc_in = "lock"
    /\ capture_state_lock = "free"
    /\ capture_state_lock' = "capture"
    /\ pc_in' = "quit_check"
    /\ UNCHANGED << captureFrame, timestamp, outbuf, sent >>

\* if (state->quit) { unlock; break; } pthread_mutex_unlock(&capture_state_lock)
capture_quit_check ==
    /\ variant = "codec"
    /\ Running
    /\ pc_in = "quit_check"
    /\ capture_state_lock' = "free"
    /\ pc_in' = IF capture_quit THEN "exit" ELSE "read"
    /\ UNCHANGED << captureFrame, timestamp, outbuf, sent >>

\* Mutant of capture_read: timestamp += FRAME_SIZE is left out.
capture_read_no_advance ==
    /\ variant = "codec"
    /\ Running
    /\ pc_in = "read"
    /\ \/ pc_in' = "lock" /\ UNCHANGED << outbuf, timestamp >>
       \/ /\ Len(sent) < MaxSend
          /\ \E payload \in EncodedFrames :
                outbuf' = capture_frame(payload, timestamp)
          /\ timestamp' = timestamp
          /\ pc_in' = "sendto"
    /\ UNCHANGED << captureFrame, capture_state_lock, sent >>

\* inbytes = read(capture_priv.fd, inbuf, sizeof(inbuf)): nothing to read, or a
\* frame, which is encoded and framed: speex_encode_int; speex_bits_write;
\* hdr->sig = htonl(0xcafebabe); hdr->timestamp = timestamp; timestamp += FRAME_SIZE
capture_read ==
    /\ variant = "codec"
    /\ Running
    /\ pc_in = "read"
    /\ \/ pc_in' = "lock" /\ UNCHANGED << outbuf, timestamp >>
       \/ /\ Len(sent) < MaxSend
          /\ \E payload \in EncodedFrames :
                outbuf' = capture_frame(payload, timestamp)
          /\ timestamp' = timestamp + FRAME_SIZE
          /\ pc_in' = "sendto"
    /\ UNCHANGED << captureFrame, capture_state_lock, sent >>

\* ret = sendto(capture_priv.sockfd, outbuf, outbytes + sizeof(*hdr), ...);
\* if (ret < 0) warn("sendto")
capture_sendto ==
    /\ variant = "codec"
    /\ Running
    /\ pc_in = "sendto"
    /\ \E ok \in BOOLEAN : sent' = Append(sent, [dgram |-> outbuf, ok |-> ok])
    /\ pc_in' = "lock"
    /\ UNCHANGED << captureFrame, capture_state_lock, timestamp, outbuf >>

(* ------------------- main: the shutdown sequence ---------------------- *)
\* The two programs run the same sequence (src/sscall.c 450-478,
\* src/src/sscall.c 575-603).

\* What no step of the shutdown sequence changes.
shutdownFrame ==
    << platformVars, framerVars, captureVars, handle_sigint, queue, speex_jitter,
       pcm, played, freed, m_buf, cbuf_len, received, hist_put, hist_push >>

\* pthread_mutex_lock(&input_pcm_state_lock)
main_capture_quit_lock ==
    /\ pc_main = "capture_quit_lock"
    /\ capture_state_lock = "free"
    /\ capture_state_lock' = "main"
    /\ pc_main' = "capture_quit_set"
    /\ UNCHANGED << shutdownFrame, queue_lock, playback_state_lock,
                    speex_jitter_lock, pc_out, playback_quit, capture_quit,
                    events, device >>

\* input_pcm_state.quit = 1; pthread_mutex_unlock(&input_pcm_state_lock)
main_capture_quit_set ==
    /\ pc_main = "capture_quit_set"
    /\ capture_quit' = TRUE
    /\ capture_state_lock' = "free"
    /\ events' = Append(events, "CaptureQuitSet")
    /\ pc_main' = "join_capture"
    /\ UNCHANGED << shutdownFrame, queue_lock, playback_state_lock,
                    speex_jitter_lock, pc_out, playback_quit, device >>

\* Mutant of main_join_capture: the join is left out, main goes on at once.
main_join_capture_nowait ==
    /\ pc_main = "join_capture"
    /\ events' = Append(events, "CaptureJoined")
    /\ pc_main' = "playback_quit_lock"
    /\ UNCHANGED << shutdownFrame, lockVars, pc_out, playback_quit,
                    capture_quit, device >>

\* pthread_join(input_pcm_thread, NULL) returns once the thread has exited
main_join_capture ==
    /\ pc_main = "join_capture"
    /\ pc_in = "exit"
    /\ events' = Append(events, "CaptureJoined")
    /\ pc_main' = "playback_quit_lock"
    /\ UNCHANGED << shutdownFrame, lockVars, pc_out, playback_quit,
                    capture_quit, device >>

\* Mutant of main_playback_quit_lock: the lock call is missing and main goes
\* straight to the write of the flag.
main_playback_quit_lock_missing ==
    /\ pc_main = "playback_quit_lock"
    /\ pc_main' = "playback_quit_set"
    /\ UNCHANGED << shutdownFrame, lockVars, pc_out, playback_quit,
                    capture_quit, events, device >>

\* pthread_mutex_lock(&output_pcm_state_lock)
main_playback_quit_lock ==
    /\ pc_main = "playback_quit_lock"
    /\ playback_state_lock = "free"
    /\ playback_state_lock' = "main"
    /\ pc_main' = "playback_quit_set"
    /\ UNCHANGED << shutdownFrame, queue_lock, capture_state_lock,
                    speex_jitter_lock, pc_out, playback_quit, capture_quit,
                    events, device >>

\* output_pcm_state.quit = 1; pthread_mutex_unlock(&output_pcm_state_lock)
main_playback_quit_set ==
    /\ pc_main = "playback_quit_set"
    /\ playback_quit' = TRUE
    /\ playback_state_lock' = "free"
    /\ events' = Append(events, "PlaybackQuitSet")
    /\ pc_main' = "wake_lock"
    /\ UNCHANGED << shutdownFrame, queue_lock, capture_state_lock,
                    speex_jitter_lock, pc_out, capture_quit, device >>

\* pthread_mutex_lock(&pcm_buf_lock)
main_wake_lock ==
    /\ pc_main = "wake_lock"
    /\ queue_lock = "free"
    /\ queue_lock' = "main"
    /\ pc_main' = "wake_signal"
    /\ UNCHANGED << shutdownFrame, playback_state_lock, capture_state_lock,
                    speex_jitter_lock, pc_out, playback_quit, capture_quit,
                    events, device >>

\* pthread_cond_signal(&tx_pcm_cond); pthread_mutex_unlock(&pcm_buf_lock)
main_wake_signal ==
    /\ pc_main = "wake_signal"
    /\ pc_out' = cond_signal(pc_out)
    /\ queue_lock' = "free"
    /\ events' = Append(events, "Signalled")
    /\ pc_main' = "join_playback"
    /\ UNCHANGED << shutdownFrame, playback_state_lock, capture_state_lock,
                    speex_jitter_lock, playback_quit, capture_quit, device >>

\* pthread_join(output_pcm_thread, NULL) returns once the thread has exited
main_join_playback ==
    /\ pc_main = "join_playback"
    /\ pc_out = "exit"
    /\ events' = Append(events, "PlaybackJoined")
    /\ pc_main' = "release"
    /\ UNCHANGED << shutdownFrame, lockVars, pc_out, playback_quit,
                    capture_quit, device >>

\* ao_close(device); ao_shutdown(); freeaddrinfo; return EXIT_SUCCESS
\* (the codec program also destroys the encoder, decoder and jitter buffer)
main_release ==
    /\ pc_main = "release"
    /\ device' = "closed"
    /\ events' = Append(events, "Released")
    /\ pc_main' = "done"
    /\ UNCHANGED << shutdownFrame, lockVars, pc_out, playback_quit, capture_quit >>

(* ------------------------- specifications ----------------------------- *)

MainStep ==
    \/ main_loop
    \/ main_recvfrom
    \/ do_output_pcm_lock
    \/ do_output_pcm_add
    \/ process_compressed_packet_alloc
    \/ process_compressed_packet_lock
    \/ process_compressed_packet_put
    \/ enqueue_for_playback_lock
    \/ enqueue_for_playback_add
    \/ main_capture_quit_lock
    \/ main_capture_quit_set
    \/ main_join_capture
    \/ main_playback_quit_lock
    \/ main_playback_quit_set
    \/ main_wake_lock
    \/ main_wake_signal
    \/ main_join_playback
    \/ main_release

\* The playback thread's steps other than the end of a wait nobody signalled.
PlaybackStep ==
    \/ output_pcm_lock
    \/ output_pcm_list_empty
    \/ output_pcm_wake
    \/ output_pcm_lock_state
    \/ output_pcm_quit_check
    \/ output_pcm_drain
    \/ output_pcm_ao_play
    \/ output_pcm_free
    \/ playback_lock
    \/ playback_list_empty
    \/ playback_wake
    \/ playback_lock_state
    \/ playback_quit_check
    \/ playback_drain
    \/ playback_jitter_lock
    \/ playback_jitter_get
    \/ playback_ao_play
    \/ playback_free

\* The timed wait expires.
TimedOut == output_pcm_timedout \/ playback_timedout

\* The wait ends though nobody signalled and no time passed.
Spurious == output_pcm_spurious \/ playback_spurious

CaptureStep ==
    \/ input_pcm_lock
    \/ input_pcm_quit_check
    \/ input_pcm_read
    \/ input_pcm_sendto
    \/ capture_lock
    \/ capture_quit_check
    \/ capture_read
    \/ capture_sendto

Next ==
    \/ sig_handler
    \/ MainStep
    \/ PlaybackStep
    \/ TimedOut
    \/ Spurious
    \/ CaptureStep

Spec == Init /\ [][Next]_vars

\* Scheduling: a thread that can run again and again does run.  Strong
\* fairness per thread: a thread waiting for a mutex that is released again
\* and again gets it in the end.
Fairness ==
    /\ SF_vars(MainStep)
    /\ SF_vars(PlaybackStep)
    /\ SF_vars(CaptureStep)

\* The program with fair scheduling and timed waits that expire.
FairSpec == Spec /\ Fairness /\ WF_vars(TimedOut)

\* The program with fair scheduling in which no timed wait expires and no
\* wakeup is spurious: a wait ends only when the condition is signalled.
NoTimeoutNext ==
    \/ sig_handler
    \/ MainStep
    \/ PlaybackStep
    \/ CaptureStep

NoTimeoutSpec == Init /\ [][NoTimeoutNext]_vars /\ Fairness

(* -------------------- main: starting the threads ---------------------- *)

\* What pthread_create returns: 0, or a positive error number (EAGAIN).
PthreadCreateReturns == {0, 11}

\* The test main applies to that return value: the raw program tests
\* ret < 0, the codec program tests ret.
pthread_create_failed(ret) == IF variant = "raw" THEN ret < 0 ELSE ret # 0

\* The state before the first pthread_create: no thread exists yet.
SetupInit ==
    /\ variant \in {"raw", "codec"}
    /\ host_be = FALSE
    /\ handle_sigint = FALSE
    /\ pc_main = "create_playback"
    /\ pc_out = "none"
    /\ pc_in = "none"
    /\ queue_lock = "free"
    /\ playback_state_lock = "free"
    /\ capture_state_lock = "free"
    /\ speex_jitter_lock = "free"
    /\ queue = <<>>
    /\ playback_quit = FALSE
    /\ capture_quit = FALSE
    /\ speex_jitter = speex_jitter_init
    /\ device = "open"
    /\ m_buf = <<>>
    /\ cbuf_len = 0
    /\ pcm = <<>>
    /\ timestamp = 0
    /\ outbuf = <<>>
    /\ received = <<>>
    /\ hist_put = <<>>
    /\ hist_push = <<>>
    /\ played = <<>>
    /\ freed = <<>>
    /\ sent = <<>>
    /\ events = <<>>
    /\ fr_pc = "idle"
    /\ fr_payload = <<>>
    /\ fr_T = 0
    /\ fr_dgram = <<>>
    /\ fr_out = <<>>

\* ret = pthread_create(&output_pcm_thread / &playback_thread, ...) and the
\* test of ret that follows
main_create_playback ==
    /\ pc_main = "create_playback"
    /\ \E ret \in PthreadCreateReturns :
          /\ pc_out' = IF ret = 0 THEN "lock" ELSE "none"
          /\ pc_main' = IF pthread_create_failed(ret)
                        THEN "fatal" ELSE "create_capture"
    /\ UNCHANGED << platformVars, framerVars, captureVars, lockVars,
                    handle_sigint, queue, playback_quit, capture_quit,
                    speex_jitter, pcm, played, freed, m_buf, cbuf_len, received,
                    hist_put, hist_push, events, device >>

\* ret = pthread_create(&input_pcm_thread / &capture_thread, ...) and the test
\* of ret that follows; signal(SIGINT, sig_handler) comes next
main_create_capture ==
    /\ pc_main = "create_capture"
    /\ \E ret \in PthreadCreateReturns :
          /\ pc_in' = IF ret = 0 THEN "lock" ELSE "none"
          /\ pc_main' = IF pthread_create_failed(ret) THEN "fatal" ELSE "loop"
    /\ UNCHANGED << platformVars, framerVars, lockVars, handle_sigint, pc_out,
                    timestamp, outbuf, sent, queue, playback_quit, capture_quit,
                    speex_jitter, pcm, played, freed, m_buf, cbuf_len, received,
                    hist_put, hist_push, events, device >>

\* pthread_join(input_pcm_thread, NULL) on a thread id pthread_create never
\* stored: undefined behaviour. The call either returns at once or the
\* process crashes.
main_join_capture_invalid ==
    /\ pc_main = "join_capture"
    /\ pc_in = "none"
    /\ pc_main' \in {"playback_quit_lock", "fatal"}
    /\ UNCHANGED << shutdownFrame, lockVars, pc_out, playback_quit,
                    capture_quit, device, events >>

\* pthread_join(output_pcm_thread, NULL) on a thread id pthread_create never
\* stored: undefined behaviour, as above.
main_join_playback_invalid ==
    /\ pc_main = "join_playback"
    /\ pc_out = "none"
    /\ pc_main' \in {"release", "fatal"}
    /\ UNCHANGED << shutdownFrame, lockVars, pc_out, playback_quit,
                    capture_quit, device, events >>

\* The program from the first pthread_create on.
SetupNext ==
    \/ main_create_playback
    \/ main_create_capture
    \/ main_join_capture_invalid
    \/ main_join_playback_invalid
    \/ Next

SetupSpec == SetupInit /\ [][SetupNext]_vars

(* ---------------------- the framing on its own ----------------------- *)

\* Bytes the encoder's output is made of when the framing is taken on its own.
FramerBytes == {0, 255}

\* Every payload of at most MaxPayload bytes.
FramerPayloads ==
    UNION { [1..n -> FramerBytes] : n \in 0..MaxPayload }

\* Timestamp counters: the first frames, and values that reach into the
\* second, third and fourth byte of the field.
FramerTimestamps ==
    { 0, FRAME_SIZE, 255, 205 * FRAME_SIZE, 52429 * FRAME_SIZE, 6710886 * FRAME_SIZE }

\* One payload and one timestamp, on a host of either byte order.
FramerInit ==
    /\ variant = "codec"
    /\ host_be \in BOOLEAN
    /\ ProgramInit
    /\ fr_pc = "start"
    /\ fr_payload \in FramerPayloads
    /\ fr_T \in FramerTimestamps
    /\ fr_dgram = <<>>
    /\ fr_out = <<>>

\* capture(): the encoder's output is framed into outbuf.
framer_encode ==
    /\ fr_pc = "start"
    /\ fr_dgram' = capture_frame(fr_payload, fr_T)
    /\ fr_pc' = "framed"
    /\ UNCHANGED << platformVars, captureVars, mainVars, lockVars, handle_sigint,
                    pc_out, queue, playback_quit, capture_quit, speex_jitter,
                    pcm, played, freed, fr_payload, fr_T, fr_out >>

\* process_compressed_packet(): the datagram is taken apart again.
framer_decode ==
    /\ fr_pc = "framed"
    /\ IF malloc_fails(packet_cbuf_len(Len(fr_dgram)))
       THEN fr_pc' = "fatal" /\ fr_out' = fr_out
       ELSE /\ fr_pc' = "stripped"
            /\ fr_out' = [timestamp |-> packet_timestamp(fr_dgram),
                          payload |-> packet_payload(fr_dgram)]
    /\ UNCHANGED << platformVars, captureVars, mainVars, lockVars, handle_sigint,
                    pc_out, queue, playback_quit, capture_quit, speex_jitter,
                    pcm, played, freed, fr_payload, fr_T, fr_dgram >>

FramerNext == framer_encode \/ framer_decode

FramerSpec == FramerInit /\ [][FramerNext]_vars

(* ------------------------------ claims -------------------------------- *)

IsPrefix(s, t) == Len(s) <= Len(t) /\ SubSeq(t, 1, Len(s)) = s

\* C1: raw mode: the blocks written to the audio sink are, in order and byte
\* for byte, a prefix of the positive-length datagrams received.
C1_RawFifo == variant = "raw" => IsPrefix(played, received)

\* C1 witness: two different datagrams were received and both were played.
C1_Witness ==
    /\ variant = "raw"
    /\ Len(played) = 2
    /\ played[1] # played[2]

\* C2 (first half): while the playback thread is blocked in the wait with no
\* signal delivered, the queue is empty.
NoLostWakeup == pc_out = "wait" => queue = <<>>

\* C2 (second half): while the quit flag is unset, every pushed block is
\* eventually written to the sink.
PushedIsPlayed ==
    \A n \in 1..(MaxRecv + 1) :
        (Len(hist_push) >= n) ~> (Len(played) >= n \/ playback_quit)

\* C2: no wakeup is lost on push, and so every pushed block is eventually
\* written while the quit flag is unset, with no timed wait expiring.
C2_NoLostWakeup == []NoLostWakeup /\ PushedIsPlayed

\* The locks a thread holds.
Held(t) ==
    { l \in {"queue", "playback_state", "capture_state", "speex_jitter"} :
        \/ l = "queue" /\ queue_lock = t
        \/ l = "playback_state" /\ playback_state_lock = t
        \/ l = "capture_state" /\ capture_state_lock = t
        \/ l = "speex_jitter" /\ speex_jitter_lock = t }

\* The order of the shutdown sequence.
ShutdownOrder ==
    << "CaptureQuitSet", "CaptureJoined", "PlaybackQuitSet", "Signalled",
       "PlaybackJoined", "Released" >>

\* C3: once main has set the playback quit flag and signalled the condition
\* with the queue empty, the playback thread is never blocked in a wait that
\* only the timeout can end.
C3_PromptShutdown ==
    (Len(events) >= 4 /\ queue = <<>>) => pc_out # "wait"

\* C4: once the stop signal is set, main eventually returns from both joins
\* and releases the resources.
C4_ShutdownCompletes == handle_sigint ~> (pc_main = "done")

\* C5: the steps of the shutdown sequence happen once each and in order; the
\* playback quit flag is set only after the capture thread has ended, and
\* the device is closed only after the playback thread has ended.
C5_ShutdownOrder ==
    /\ IsPrefix(events, ShutdownOrder)
    /\ pc_main = "done" => events = ShutdownOrder
    /\ capture_quit <=> Len(events) >= 1
    /\ Len(events) >= 2 => pc_in = "exit"
    /\ playback_quit <=> Len(events) >= 3
    /\ playback_quit => pc_in = "exit"
    /\ Len(events) >= 5 => pc_out = "exit"
    /\ device = "closed" <=> Len(events) = 6
    /\ device = "closed" => pc_out = "exit"

\* C5 witness: a run that shut down completely.
C5_Witness == pc_main = "done" /\ events = ShutdownOrder

\* C6 as claimed: no thread holds any lock while it is in the device write, in
\* recvfrom or in sendto.
C6_NoLockAcrossBlocking ==
    /\ pc_out = "ao_play" => Held("playback") = {}
    /\ pc_main = "recvfrom" => Held("main") = {}
    /\ pc_in = "sendto" => Held("capture") = {}

\* C6 as amended: no quit-flag lock and no jitter-buffer lock is held across the
\* device write or a network call, and main and the capture thread hold no
\* lock in recvfrom and sendto; the playback thread holds the queue lock, and
\* only it, during every device write.
C6_OnlyQueueLockAcrossWrite ==
    /\ pc_out = "ao_play" => Held("playback") = {"queue"}
    /\ pc_main = "recvfrom" => Held("main") = {}
    /\ pc_in = "sendto" => Held("capture") = {}

\* C6 witness: the playback thread is in the device write holding the queue
\* lock while main waits for that lock to push a block.
C6_Witness ==
    /\ pc_out = "ao_play"
    /\ queue_lock = "playback"
    /\ pc_main \in {"do_output_pcm", "enqueue_for_playback"}

\* A datagram at least as long as the header whose signature field, read in
\* network byte order, is 0xcafebabe.
HeaderParses(d) == Len(d) >= HDR_SIZE /\ SubSeq(d, 1, 4) = SIG

\* C7: codec mode: only datagrams whose header parses reach the jitter buffer
\* or the queue.
C7_HeaderValidated ==
    variant = "codec" =>
        /\ \A i \in 1..Len(hist_put) : HeaderParses(hist_put[i])
        /\ \A i \in 1..Len(hist_push) : HeaderParses(hist_push[i])

\* C8: codec mode: a datagram shorter than the header is no fatal error, and
\* the payload length computed for it never wraps around.
C8_TruncatedRecoverable ==
    variant = "codec" =>
        /\ pc_main # "fatal"
        /\ cbuf_len <= COMPRESSED_BUF_SIZE - HDR_SIZE

\* C9: the datagram built from a payload and a timestamp is 8 bytes longer than
\* the payload and starts with 0xCAFEBABE in network byte order; stripping it
\* gives back the timestamp and the payload.
C9_RoundTrip ==
    /\ fr_pc # "fatal"
    /\ fr_pc \in {"framed", "stripped"} =>
          /\ Len(fr_dgram) = HDR_SIZE + Len(fr_payload)
          /\ SubSeq(fr_dgram, 1, 4) = << 202, 254, 186, 190 >>
    /\ fr_pc = "stripped" =>
          fr_out = [timestamp |-> fr_T, payload |-> fr_payload]

\* C9 witness: a payload of the greatest length and a timestamp that fills all
\* four bytes of the field went through framing and stripping.
C9_Witness ==
    /\ fr_pc = "stripped"
    /\ Len(fr_payload) = MaxPayload
    /\ fr_T = 6710886 * FRAME_SIZE
    /\ ~host_be

\* C10: codec mode: the k-th frame handed to sendto carries the timestamp
\* k * FRAME_SIZE (k from 0), whether or not earlier sends succeeded.
C10_TimestampCounter ==
    variant = "codec" =>
        /\ \A k \in 1..Len(sent) :
              packet_timestamp(sent[k].dgram) = (k - 1) * FRAME_SIZE
        /\ pc_in = "sendto" => packet_timestamp(outbuf) = Len(sent) * FRAME_SIZE
        /\ timestamp =
              FRAME_SIZE * (Len(sent) + (IF pc_in = "sendto" THEN 1 ELSE 0))

\* C10 witness: two frames were handed to sendto and the first send failed.
C10_Witness ==
    /\ variant = "codec"
    /\ Len(sent) = 2
    /\ ~sent[1].ok

\* C11: a failed sendto does not stop the capture thread: after the send,
\* successful or not, the thread is back at the top of its loop, and the
\* only step by which it terminates is the quit check reading the flag as
\* set under capture_state_lock (both programs).
C11_SendFailureNotFatal ==
    [][ /\ (pc_in = "sendto" /\ pc_in' # pc_in) => pc_in' = "lock"
        /\ (pc_in # "exit" /\ pc_in' = "exit") =>
              /\ pc_in = "quit_check"
              /\ capture_quit
              /\ capture_state_lock = "capture" ]_vars

\* C11 witness: the first send failed and the thread has gone round its loop
\* to a second send that succeeded.
C11_Witness ==
    /\ Len(sent) = 2
    /\ ~sent[1].ok
    /\ sent[2].ok
    /\ pc_in = "lock"
    /\ ~capture_quit

\* C12: when the playback thread, at its quit check, reads the flag as set,
\* it releases both locks and terminates in that step, writing no block and
\* removing no entry even if the queue is not empty; once terminated it
\* never writes or removes anything, and the queue stays as it was.
C12_QuitStopsProcessing ==
    [][ /\ (pc_out = "quit_check" /\ playback_quit /\ pc_out' # pc_out) =>
              /\ pc_out' = "exit"
              /\ queue_lock = "playback" /\ queue_lock' = "free"
              /\ playback_state_lock = "playback" /\ playback_state_lock' = "free"
              /\ queue' = queue /\ played' = played /\ freed' = freed
        /\ pc_out = "exit" =>
              /\ pc_out' = "exit"
              /\ queue' = queue /\ played' = played /\ freed' = freed
              /\ queue_lock' # "playback"
              /\ playback_state_lock' # "playback" ]_vars

\* C12 witness: the playback thread has terminated on the quit flag with a
\* block still queued that was never written.
C12_Witness ==
    /\ pc_out = "exit"
    /\ playback_quit
    /\ queue # <<>>
    /\ Len(played) < Len(hist_push)

\* The blocks handed to the queue, in push order.
Pushed ==
    [ i \in 1..Len(hist_push) |->
        IF variant = "raw" THEN hist_push[i] ELSE packet_payload(hist_push[i]) ]

\* Every entry freed so far was pushed, is freed once and in push order, and
\* was freed after its own device write: the writes are at most one ahead of
\* the frees, and only between a write and the free that follows it.
FreedAfterWrite ==
    /\ IsPrefix(freed, Pushed)
    /\ Len(played) = Len(freed) + (IF pc_out = "free" THEN 1 ELSE 0)
    /\ variant = "raw" => IsPrefix(played, Pushed)

\* C13 as stated: every pushed block is written once and freed by the
\* playback thread after its write, never before it and never twice, and
\* when the process exits after joining the playback thread no pushed block
\* is left unwritten or unfreed.
C13_EveryBlockConsumed ==
    /\ FreedAfterWrite
    /\ pc_main = "done" => (freed = Pushed /\ queue = <<>>)

\* C13 amended: every block freed was written exactly once just before, in
\* push order, and every pushed block is at any time either freed or still
\* queued; the blocks still queued when the playback thread terminates are
\* never written and never freed, and remain at exit.
C13_ConsumedOrStillQueued ==
    /\ FreedAfterWrite
    /\ Pushed = freed \o queue
    /\ pc_main = "done" => Len(played) = Len(freed)

\* C13 witness: the process exited after the join with one block written and
\* freed and another still queued.
C13_Witness ==
    /\ pc_main = "done"
    /\ Len(freed) >= 1
    /\ queue # <<>>

\* C14: an expired or spurious wait is no error. From the return of the wait
\* the playback thread writes nothing and frees nothing until it has taken
\* the queue lock again, passed the quit check and looked at the queue afresh:
\* if the flag is unset and the queue still empty it leaves the queue alone,
\* releases the lock and goes back to the wait; if a block was pushed in the
\* meantime, that same pass writes it.
C14_StarvationNotError ==
    [][ /\ pc_out \in {"timedout", "woken"} =>
              /\ pc_out' \in {pc_out, "state_lock"}
              /\ played' = played /\ freed' = freed
              /\ IsPrefix(queue, queue')
        /\ pc_out = "state_lock" =>
              /\ pc_out' \in {pc_out, "quit_check"}
              /\ played' = played /\ freed' = freed /\ queue' = queue
        /\ (pc_out = "quit_check" /\ ~playback_quit) =>
              /\ pc_out' \in {pc_out, "drain"}
              /\ played' = played /\ freed' = freed /\ queue' = queue
        /\ (pc_out = "drain" /\ queue = <<>>) =>
              /\ pc_out' \in {pc_out, "lock"}
              /\ played' = played /\ freed' = freed /\ queue' = queue
        /\ (pc_out = "drain" /\ queue # <<>>) =>
              pc_out' \in {pc_out, "ao_play", "jitter_lock"}
        /\ pc_out = "lock" => pc_out' \in {pc_out, "list_empty"}
        /\ (pc_out = "list_empty" /\ queue = <<>>) =>
              pc_out' \in {pc_out, "wait"} ]_vars

\* C14 witness: the wait has expired with the flag unset, and before the
\* thread took the queue lock again a block was pushed.
C14_Witness ==
    /\ pc_out = "timedout"
    /\ ~playback_quit
    /\ queue # <<>>
    /\ played = <<>>

\* C15: codec mode: speex_jitter_put (main) and speex_jitter_get (playback
\* thread) are never in progress together, each running under
\* speex_jitter_lock; the device is written only by the playback thread and
\* only while open; and main destroys the decoder and jitter buffer and
\* closes the device only after it has joined the terminated playback thread.
C15_ExclusiveDecoderAndDevice ==
    /\ [](/\ ~(pc_main = "speex_jitter_put" /\ pc_out = "speex_jitter_get")
          /\ pc_main = "speex_jitter_put" => speex_jitter_lock = "main"
          /\ pc_out = "speex_jitter_get" => speex_jitter_lock = "playback"
          /\ pc_out = "ao_play" => device = "open"
          /\ device = "closed" =>
                /\ pc_out = "exit"
                /\ \E i \in DOMAIN events : events[i] = "PlaybackJoined")
    /\ [][ /\ played' # played => (pc_out = "ao_play" /\ device = "open")
           /\ speex_jitter' # speex_jitter =>
                 \/ pc_main = "speex_jitter_put" /\ pc_out' = pc_out
                 \/ pc_out = "speex_jitter_get" /\ pc_main' = pc_main
           /\ device' # device =>
                 (pc_main = "release" /\ pc_out = "exit") ]_vars

\* C15 witness: the playback thread is inside speex_jitter_get while main,
\* with the next datagram, is waiting for speex_jitter_lock to put.
C15_Witness ==
    /\ variant = "codec"
    /\ pc_out = "speex_jitter_get"
    /\ pc_main = "jitter_lock"
    /\ speex_jitter_lock = "playback"

\* C16: in both programs a pthread_create that returns non-zero is fatal:
\* the process exits at once with an error, so main is never past a
\* pthread_create whose thread does not exist, neither in the receive loop
\* nor in the join sequence.
C16_CreateFailureFatal ==
    /\ (pc_out = "none" /\ pc_main # "create_playback") => pc_main = "fatal"
    /\ (pc_in = "none" /\ pc_main \notin {"create_playback", "create_capture"})
          => pc_main = "fatal"

C19_QuitFlagDiscipline ==
    /\ [](/\ pc_in = "quit_check" => capture_state_lock = "capture"
          /\ pc_out = "quit_check" => playback_state_lock = "playback"
          /\ Cardinality({i \in DOMAIN events : events[i] = "CaptureQuitSet"}) <= 1
          /\ Cardinality({i \in DOMAIN events : events[i] = "PlaybackQuitSet"}) <= 1)
    /\ [][ /\ capture_quit' # capture_quit =>
                 /\ pc_main = "capture_quit_set"
                 /\ capture_state_lock = "main"
                 /\ ~capture_quit /\ capture_quit'
           /\ playback_quit' # playback_quit =>
                 /\ pc_main = "playback_quit_set"
                 /\ playback_state_lock = "main"
                 /\ ~playback_quit /\ playback_quit'
           /\ capture_quit => capture_quit'
           /\ playback_quit => playback_quit' ]_vars

\* C19 witness: both flags are set and the playback thread, holding its
\* state lock, is at the read that will find its flag set.
C19_Witness ==
    /\ capture_quit
    /\ playback_quit
    /\ pc_out = "quit_check"
    /\ playback_state_lock = "playback"

\* The playback thread's positions inside the drain loop.
DrainPcs == {"drain", "jitter_lock", "speex_jitter_get", "ao_play", "free"}

\* C20: an iteration that passed the quit check drains the whole queue in
\* one go: the thread holds the queue lock at every position of the drain
\* loop, no push happens while it is there, entries leave from the head in
\* push order, one per write, and the thread leaves the loop, releasing the
\* queue lock, only when the queue is empty.
C20_BatchDrain ==
    /\ [](/\ pc_out \in DrainPcs => queue_lock = "playback"
          /\ IsPrefix(freed, Pushed)
          /\ pc_out \in {"jitter_lock", "speex_jitter_get", "ao_play", "free"}
                => queue # <<>>)
    /\ [][ /\ pc_out \in DrainPcs =>
                 /\ hist_push' = hist_push
                 /\ \/ queue' = queue
                    \/ queue # <<>> /\ queue' = Tail(queue)
           /\ (pc_out \in DrainPcs /\ pc_out' \notin DrainPcs) =>
                 /\ pc_out = "drain" /\ pc_out' = "lock"
                 /\ queue = <<>> /\ queue' = <<>>
                 /\ queue_lock' = "free"
           /\ (pc_out = "ao_play" /\ pc_out' # pc_out) =>
                 /\ pc_out' = "free"
                 /\ Len(played') = Len(played) + 1
                 /\ variant = "raw" => played' = Append(played, Head(queue))
           /\ (pc_out = "free" /\ pc_out' # pc_out) =>
                 /\ pc_out' = "drain"
                 /\ freed' = Append(freed, Head(queue))
                 /\ queue' = Tail(queue) ]_vars

\* C20 witness: two blocks were queued when the drain began; the first has
\* been written and is about to be removed, the second is still to come.
C20_Witness ==
    /\ pc_out = "free"
    /\ Len(queue) = 2
    /\ Len(played) = 1
    /\ queue_lock = "playback"

\* C21: once main has set the capture quit flag, the capture thread hands at
\* most one more datagram to sendto, that of the iteration whose quit check
\* came before the set: with the flag set a send takes the thread to the top
\* of its loop, and from there it only reaches the quit check and its exit.
\* Under fair scheduling it does terminate, and nothing is sent after main's
\* join of the thread has returned.
C21_CaptureStopLatency ==
    /\ [][ /\ (capture_quit /\ sent' # sent) =>
                 (pc_in = "sendto" /\ pc_in' = "lock")
           /\ (capture_quit /\ pc_in \in {"lock", "quit_check", "exit"}) =>
                 (pc_in' \in {"lock", "quit_check", "exit"} /\ sent' = sent)
           /\ (\E i \in DOMAIN events : events[i] = "CaptureJoined") =>
                 (pc_in = "exit" /\ sent' = sent) ]_vars
    /\ (capture_quit ~> (pc_in = "exit"))

\* C21 witness: the flag was set while the capture thread was past its quit
\* check; it is at the send of that last datagram.
C21_Witness ==
    /\ capture_quit
    /\ pc_in = "sendto"
    /\ Len(sent) >= 1

\* Main's positions in the shutdown sequence, after the receive loop.
ShutdownPcs ==
    {"capture_quit_lock", "capture_quit_set", "join_capture",
     "playback_quit_lock", "playback_quit_set", "wake_lock", "wake_signal",
     "join_playback", "release", "done"}

\* C22: main reads handle_sigint at the top of every iteration of the
\* receive loop and leaves the loop there when it is set, so a datagram
\* received before the flag was seen is the last one dispatched: with the
\* flag set, a put or a push is the end of the iteration in progress and no
\* new datagram is received from the top of the loop. Once the loop is left
\* nothing is received, put or pushed again, and the only signal main sends
\* on the condition variable is the one wake of the shutdown sequence.
C22_ReceiveLoopStop ==
    /\ [](Cardinality({i \in DOMAIN events : events[i] = "Signalled"}) <= 1)
    /\ [][ /\ (pc_main = "loop" /\ pc_main' # pc_main) =>
                 pc_main' = (IF handle_sigint THEN "capture_quit_lock"
                             ELSE "recvfrom")
           /\ (handle_sigint /\ hist_push' # hist_push) => pc_main' = "loop"
           /\ (handle_sigint /\ pc_main = "loop") =>
                 /\ pc_main' \in {"loop", "capture_quit_lock"}
                 /\ received' = received
                 /\ hist_put' = hist_put /\ hist_push' = hist_push
           /\ pc_main \in ShutdownPcs =>
                 /\ pc_main' \in ShutdownPcs
                 /\ received' = received
                 /\ hist_put' = hist_put /\ hist_push' = hist_push
                 /\ speex_jitter' # speex_jitter => pc_out = "speex_jitter_get"
                 /\ Len(queue') <= Len(queue)
                 /\ (pc_main' # pc_main /\ pc_out' # pc_out) =>
                       /\ pc_main = "wake_signal"
                       /\ events' = Append(events, "Signalled") ]_vars

\* C22 witness: the flag was set while main was dispatching a datagram; main
\* is about to push that last block.
C22_Witness ==
    /\ handle_sigint
    /\ pc_main = "list_add_tail"
    /\ queue_lock = "main"

\* C23: codec mode: every datagram received is put into the jitter buffer
\* once and then pushed once, and every entry taken from the queue causes one
\* get and one device write. So, counting a datagram or an entry that is
\* still on its way through main or the playback thread, the gets equal the
\* entries dequeued, these do not exceed the puts, the puts equal the
\* datagrams received, and no get comes before the first put.
C23_PutGetPairing ==
    variant = "codec" =>
        /\ Len(received) = Len(hist_put) +
              (IF pc_main \in {"process_compressed_packet", "jitter_lock",
                               "speex_jitter_put"} THEN 1 ELSE 0)
        /\ Len(hist_put) = Len(hist_push) +
              (IF pc_main \in {"enqueue_for_playback", "list_add_tail"}
               THEN 1 ELSE 0)
        /\ Len(played) = Len(freed) + (IF pc_out = "free" THEN 1 ELSE 0)
        /\ Len(freed) + (IF pc_out \in {"ao_play", "free"} THEN 1 ELSE 0)
              <= Len(hist_push)
        /\ pc_out \in {"jitter_lock", "speex_jitter_get", "ao_play", "free"}
              => hist_put # <<>>
        /\ hist_put = <<>> => played = <<>>

====
